---- MODULE Spec2Model ----
(***************************************************************************)
(* A model of the browser storage helpers of @coderlzw/store:              *)
(*   src/src/storage.ts  - the keyed store facade over sessionStorage and  *)
(*                         localStorage (expiry envelope, AES encryption)  *)
(*   src/src/cookie.ts   - the cookie facade over document.cookie          *)
(* Text (a stored string, a cookie header) is a sequence of tokens, so     *)
(* that JSON.stringify / JSON.parse, AES encrypt / decrypt and             *)
(* encodeURIComponent / decodeURIComponent are conversions with their own  *)
(* failure cases and not identities.                                       *)
(***************************************************************************)
EXTENDS Integers, Sequences, FiniteSets, TLC

VARIABLES
    store,      \* window[type]: type -> sequence of [key, val] in key(i) order
    now,        \* Date.now()
    written,    \* history: type -> key -> the last setStorage that wrote the key
    lastOp,     \* the last call made and what it returned or threw
    cookieJar,  \* the browser's cookies: sequence of [name, value, path, domain]
    defaultCookieOptions    \* cookie.ts: the module-level default options

vars == <<store, now, written, lastOp, cookieJar, defaultCookieOptions>>

----------------------------------------------------------------------------
(* Bounds of the model *)

MaxTime == 3
MaxTtl == 2
MaxCookies == 2

Session == "sessionStorage"
Local == "localStorage"
StorageTypeEnum == {Session, Local}
TypeInputs == StorageTypeEnum \cup {"cookieStorage"}

Keys == {"a", "b"}
Values == {"x", "y"}
SecretKeys == {"k1", "k2"}

\* JavaScript null: what getStorage returns for an absent entry
Null == "null"
\* A missing (undefined or empty, both falsy) secretKey
NoSecret == ""

\* expire arguments: undefined, a number, NaN
NoExpire == [absent |-> TRUE]
NaNExpire == [nan |-> TRUE]
NumExpire(n) == [n |-> n]
ExpireInputs == {NoExpire, NaNExpire} \cup {NumExpire(n) : n \in (-1)..MaxTtl}

NoError == "none"
InvalidExpiry == "InvalidExpiry"
InvalidStoreKind == "InvalidStoreKind"
MissingSecretKey == "MissingSecretKey"
NativeError == "NativeError"

----------------------------------------------------------------------------
(* The native Storage object *)

RECURSIVE IndexOfKey(_, _, _)
IndexOfKey(st, key, i) ==
    IF i > Len(st) THEN 0
    ELSE IF st[i].key = key THEN i
    ELSE IndexOfKey(st, key, i + 1)

\* Storage.getItem: null for a key without an entry, else the stored string
getItem(st, key) ==
    LET i == IndexOfKey(st, key, 1)
    IN  IF i = 0 THEN [isNull |-> TRUE] ELSE [isNull |-> FALSE, str |-> st[i].val]

\* a setItem that leaves the value of an existing key as it is
setItemKeepOld(st, key, val) ==
    LET i == IndexOfKey(st, key, 1)
    IN  IF i = 0 THEN Append(st, [key |-> key, val |-> val]) ELSE st

\* Storage.setItem: an existing key keeps its position, a new key is appended
setItem(st, key, val) ==
    LET i == IndexOfKey(st, key, 1)
    IN  IF i = 0 THEN Append(st, [key |-> key, val |-> val])
        ELSE [st EXCEPT ![i] = [key |-> key, val |-> val]]

\* a removeItem that drops the last entry whatever its key
removeItemAtEnd(st, key) ==
    IF st = <<>> THEN st ELSE SubSeq(st, 1, Len(st) - 1)

\* Storage.removeItem: the remaining keys keep their order
removeItem(st, key) ==
    LET i == IndexOfKey(st, key, 1)
    IN  IF i = 0 THEN st
        ELSE SubSeq(st, 1, i - 1) \o SubSeq(st, i + 1, Len(st))

----------------------------------------------------------------------------
(* JSON and AES, as the facades use them *)

Quote(v) == "\"" \o v \o "\""

\* JSON.stringify of the storageData object built by setStorage
JSONstringify(data) ==
    IF "expire" \in DOMAIN data
    THEN <<"{", "\"value\":", Quote(data.value), ",",
           "\"time\":", ToString(data.time), ",",
           "\"expire\":", ToString(data.expire), "}">>
    ELSE <<"{", "\"value\":", Quote(data.value), "}">>

IsValueToken(tok) == \E v \in Values : Quote(v) = tok
ValueOfToken(tok) == CHOOSE v \in Values : Quote(v) = tok
NumberTokens == 0..(MaxTime + MaxTtl + 1)
IsNumberToken(tok) == \E n \in NumberTokens : ToString(n) = tok
NumberOfToken(tok) == CHOOSE n \in NumberTokens : ToString(n) = tok

\* JSON.parse: the parsed object, or a SyntaxError for text that is not JSON
JSONparse(text) ==
    IF /\ Len(text) = 4
       /\ text[1] = "{" /\ text[2] = "\"value\":" /\ IsValueToken(text[3])
       /\ text[4] = "}"
    THEN [ok |-> TRUE, data |-> [value |-> ValueOfToken(text[3])]]
    ELSE IF /\ Len(text) = 10
            /\ text[1] = "{" /\ text[2] = "\"value\":" /\ IsValueToken(text[3])
            /\ text[4] = "," /\ text[5] = "\"time\":" /\ IsNumberToken(text[6])
            /\ text[7] = "," /\ text[8] = "\"expire\":" /\ IsNumberToken(text[9])
            /\ text[10] = "}"
    THEN [ok |-> TRUE,
          data |-> [value |-> ValueOfToken(text[3]),
                    time |-> NumberOfToken(text[6]),
                    expire |-> NumberOfToken(text[9])]]
    ELSE IF text = <<"null">> THEN [ok |-> TRUE, data |-> [json |-> "null"]]
    ELSE IF Len(text) = 1 /\ IsNumberToken(text[1])
    THEN [ok |-> TRUE, data |-> [json |-> "number"]]
    ELSE [ok |-> FALSE]

\* JSON.parse gave null: reading a property of it throws a TypeError
IsJSONNull(jsonData) == "json" \in DOMAIN jsonData /\ jsonData.json = "null"
\* JavaScript undefined: a property the parsed value does not have
Undefined == "undefined"

\* CryptoJS.AES.encrypt(text, secretKey).toString(): an OpenSSL-format base64
\* string ("U2FsdGVkX1" is base64 of the "Salted__" header) that only the
\* same passphrase opens
CipherHeader == "U2FsdGVkX1"
AESencrypt(text, secretKey) == <<CipherHeader, secretKey>> \o text \o <<"=">>

IsCipherOf(text, secretKey) ==
    /\ Len(text) >= 3
    /\ text[1] = CipherHeader
    /\ text[2] = secretKey
    /\ text[Len(text)] = "="

\* a decryption that opens a ciphertext under any passphrase
AESdecryptAnyKey(text, secretKey) ==
    IF Len(text) >= 3 /\ text[1] = CipherHeader /\ text[Len(text)] = "="
    THEN {[ok |-> TRUE, str |-> SubSeq(text, 3, Len(text) - 1)]}
    ELSE {[ok |-> FALSE], [ok |-> TRUE, str |-> <<>>]}

\* CryptoJS.AES.decrypt(text, secretKey).toString(CryptoJS.enc.Utf8): the
\* plaintext under the right passphrase; otherwise the bytes are noise and
\* the conversion either throws (malformed UTF-8) or yields the empty string
AESdecryptOutcomes(text, secretKey) ==
    IF IsCipherOf(text, secretKey)
    THEN {[ok |-> TRUE, str |-> SubSeq(text, 3, Len(text) - 1)]}
    ELSE {[ok |-> FALSE], [ok |-> TRUE, str |-> <<>>]}

----------------------------------------------------------------------------
(* src/src/storage.ts: every operation maps the stores to an outcome        *)
(* [err, store, ...]; err # NoError is an exception thrown to the caller    *)

isValidStorageType(type) == type = "sessionStorage" \/ type = "localStorage"

isNaN(expire) == "nan" \in DOMAIN expire
hasExpire(expire) == "absent" \notin DOMAIN expire

\* a test that lets expire = 0 through
expireNegative(expire) == hasExpire(expire) /\ ~isNaN(expire) /\ expire.n < 0

\* expire != null && expire <= 0
expireNotPositive(expire) == hasExpire(expire) /\ ~isNaN(expire) /\ expire.n <= 0

\* a setStorage that keeps the time and expire of the entry it overwrites
\* when the caller gives no expire
setStorageMerge(s, nowTime, data) ==
    IF hasExpire(data.expire) /\ (isNaN(data.expire) \/ data.expire.n <= 0)
    THEN [err |-> InvalidExpiry, store |-> s]
    ELSE IF ~isValidStorageType(data.type)
    THEN [err |-> InvalidStoreKind, store |-> s]
    ELSE IF data.encrypt /\ data.secretKey = NoSecret
    THEN [err |-> MissingSecretKey, store |-> s]
    ELSE
        LET old == getItem(s[data.type], data.key)
            oldData == IF old.isNull THEN [ok |-> FALSE] ELSE JSONparse(old.str)
            storageData ==
                IF hasExpire(data.expire)
                THEN [value |-> data.value, time |-> nowTime, expire |-> data.expire.n]
                ELSE IF oldData.ok /\ "expire" \in DOMAIN oldData.data
                THEN [oldData.data EXCEPT !.value = data.value]
                ELSE [value |-> data.value]
            stringValue ==
                IF data.encrypt
                THEN AESencrypt(JSONstringify(storageData), data.secretKey)
                ELSE JSONstringify(storageData)
        IN  [err |-> NoError,
             store |-> [s EXCEPT ![data.type] = setItem(@, data.key, stringValue)]]

\* data = [key, value, type, expire, encrypt, secretKey]
setStorage(s, nowTime, data) ==
    IF hasExpire(data.expire) /\ isNaN(data.expire)
    THEN [err |-> InvalidExpiry, store |-> s]
    ELSE IF expireNotPositive(data.expire)
    THEN [err |-> InvalidExpiry, store |-> s]
    ELSE IF ~isValidStorageType(data.type)
    THEN [err |-> InvalidStoreKind, store |-> s]
    ELSE
        LET storageData ==
                IF hasExpire(data.expire)
                THEN [value |-> data.value, time |-> nowTime, expire |-> data.expire.n]
                ELSE [value |-> data.value]
        IN  IF data.encrypt /\ data.secretKey = NoSecret
            THEN [err |-> MissingSecretKey, store |-> s]
            ELSE
                LET stringValue ==
                        IF data.encrypt
                        THEN AESencrypt(JSONstringify(storageData), data.secretKey)
                        ELSE JSONstringify(storageData)
                IN  [err |-> NoError,
                     store |-> [s EXCEPT ![data.type] = setItem(@, data.key, stringValue)]]

\* an expiry test that already fires when the age equals expire
isExpiredAtAge(jsonData, nowTime) ==
    /\ "expire" \in DOMAIN jsonData
    /\ "time" \in DOMAIN jsonData
    /\ jsonData.expire <= nowTime - jsonData.time

\* jsonData.expire != null && jsonData.time != null
\*     && jsonData.expire < nowTime - jsonData.time
isExpired(jsonData, nowTime) ==
    /\ "expire" \in DOMAIN jsonData
    /\ "time" \in DOMAIN jsonData
    /\ jsonData.expire < nowTime - jsonData.time

\* a getStorage without the try/catch around decrypt and parse
getStorageUncaught(s, nowTime, key, type, secretKey, dec) ==
    IF ~isValidStorageType(type)
    THEN [err |-> InvalidStoreKind, ret |-> Null, store |-> s]
    ELSE
        LET storageValue == getItem(s[type], key)
        IN  IF storageValue.isNull
            THEN [err |-> NoError, ret |-> Null, store |-> s]
            ELSE
                LET decrypted ==
                        IF secretKey # NoSecret THEN dec
                        ELSE [ok |-> TRUE, str |-> storageValue.str]
                    parsed ==
                        IF decrypted.ok THEN JSONparse(decrypted.str) ELSE [ok |-> FALSE]
                IN  IF ~parsed.ok
                    THEN [err |-> "SyntaxError", ret |-> Null, store |-> s]
                    ELSE IF isExpired(parsed.data, nowTime)
                    THEN [err |-> NoError, ret |-> Null,
                          store |-> [s EXCEPT ![type] = removeItem(@, key)]]
                    ELSE [err |-> NoError, ret |-> parsed.data.value, store |-> s]

\* dec is the outcome of AES.decrypt(...).toString(Utf8), used when secretKey is given
getStorage(s, nowTime, key, type, secretKey, dec) ==
    IF ~isValidStorageType(type)
    THEN [err |-> InvalidStoreKind, ret |-> Null, store |-> s]
    ELSE
        LET storageValue == getItem(s[type], key)
        IN  IF storageValue.isNull
            THEN [err |-> NoError, ret |-> Null, store |-> s]
            ELSE
                LET decrypted ==
                        IF secretKey # NoSecret THEN dec
                        ELSE [ok |-> TRUE, str |-> storageValue.str]
                    parsed ==
                        IF decrypted.ok THEN JSONparse(decrypted.str) ELSE [ok |-> FALSE]
                IN  IF ~parsed.ok
                    THEN [err |-> NoError, ret |-> Null, store |-> s]
                    ELSE
                        LET jsonData == parsed.data
                        IN  IF IsJSONNull(jsonData)
                            THEN [err |-> "TypeError", ret |-> Null, store |-> s]
                            ELSE IF isExpired(jsonData, nowTime)
                            THEN [err |-> NoError, ret |-> Null,
                                  store |-> [s EXCEPT ![type] = removeItem(@, key)]]
                            ELSE [err |-> NoError,
                                  ret |-> IF "value" \in DOMAIN jsonData
                                          THEN jsonData.value ELSE Undefined,
                                  store |-> s]

\* The decrypt outcomes getStorage can meet for this key
DecryptChoices(s, key, type, secretKey) ==
    IF isValidStorageType(type) /\ secretKey # NoSecret /\ ~getItem(s[type], key).isNull
    THEN AESdecryptOutcomes(getItem(s[type], key).str, secretKey)
    ELSE {[ok |-> FALSE]}

\* the for loop of getAllStorage: i is the index, storage.length is read anew
\* on every iteration
RECURSIVE getAllLoop(_, _, _, _, _)
getAllLoop(s, nowTime, type, i, storageObject) ==
    IF ~(i < Len(s[type]))
    THEN [err |-> NoError, all |-> storageObject, store |-> s]
    ELSE
        LET key == s[type][i + 1].key
            got == getStorage(s, nowTime, key, type, NoSecret, [ok |-> FALSE])
        IN  IF got.err # NoError
            THEN [err |-> got.err, all |-> storageObject, store |-> got.store]
            ELSE getAllLoop(got.store, nowTime, type, i + 1,
                       IF got.ret # Null
                       THEN {e \in storageObject : e[1] # key} \cup {<<key, got.ret>>}
                       ELSE storageObject)

getAllStorage(s, nowTime, type) ==
    IF ~isValidStorageType(type)
    THEN [err |-> InvalidStoreKind, all |-> {}, store |-> s]
    ELSE getAllLoop(s, nowTime, type, 0, {})

\* a removeStorage that removes the key from both stores
removeStorageBoth(s, key, type, nativeThrows) ==
    IF ~isValidStorageType(type)
    THEN [err |-> InvalidStoreKind, store |-> s]
    ELSE IF nativeThrows
    THEN [err |-> NativeError, store |-> s]
    ELSE [err |-> NoError, store |-> [t \in DOMAIN s |-> removeItem(s[t], key)]]

\* nativeThrows: window[type].removeItem throws (storage access denied)
removeStorage(s, key, type, nativeThrows) ==
    IF ~isValidStorageType(type)
    THEN [err |-> InvalidStoreKind, store |-> s]
    ELSE IF nativeThrows
    THEN [err |-> NativeError, store |-> s]
    ELSE [err |-> NoError, store |-> [s EXCEPT ![type] = removeItem(@, key)]]

\* a clearStorage without the type guard: window[type] is undefined for an
\* unrecognized type and the call on it throws a TypeError
clearStorageUnguarded(s, type) ==
    IF ~isValidStorageType(type)
    THEN [err |-> "TypeError", store |-> s]
    ELSE [err |-> NoError, store |-> [s EXCEPT ![type] = <<>>]]

clearStorage(s, type) ==
    IF ~isValidStorageType(type)
    THEN [err |-> InvalidStoreKind, store |-> s]
    ELSE [err |-> NoError, store |-> [s EXCEPT ![type] = <<>>]]

\* a hasStorage that answers for the live entries only
hasStorageLive(s, key, type) ==
    IF ~isValidStorageType(type)
    THEN [err |-> InvalidStoreKind, ok |-> FALSE, store |-> s]
    ELSE [err |-> NoError,
          ok |-> getStorage(s, now, key, type, NoSecret, [ok |-> FALSE]).ret # Null,
          store |-> s]

hasStorage(s, key, type) ==
    IF ~isValidStorageType(type)
    THEN [err |-> InvalidStoreKind, ok |-> FALSE, store |-> s]
    ELSE [err |-> NoError, ok |-> ~getItem(s[type], key).isNull, store |-> s]

getStorageLength(s, type) ==
    IF ~isValidStorageType(type)
    THEN [err |-> InvalidStoreKind, len |-> 0, store |-> s]
    ELSE [err |-> NoError, len |-> Len(s[type]), store |-> s]

getStorageKeys(s, type) ==
    IF ~isValidStorageType(type)
    THEN [err |-> InvalidStoreKind, keys |-> <<>>, store |-> s]
    ELSE [err |-> NoError, keys |-> [i \in 1..Len(s[type]) |-> s[type][i].key],
          store |-> s]

\* a loop that goes on to the remaining keys after a key has failed
RECURSIVE everyRemoveAll(_, _, _, _, _, _)
everyRemoveAll(s, keys, type, failing, i, attempted) ==
    IF i > Len(keys)
    THEN [err |-> NoError, ok |-> \A j \in 1..Len(keys) : keys[j] \notin failing,
          store |-> s, attempted |-> attempted]
    ELSE everyRemoveAll(removeStorage(s, keys[i], type, keys[i] \in failing).store,
                        keys, type, failing, i + 1, Append(attempted, keys[i]))

\* keys.every(...): stops at the first key whose callback returns false
RECURSIVE everyRemove(_, _, _, _, _, _)
everyRemove(s, keys, type, failing, i, attempted) ==
    IF i > Len(keys)
    THEN [err |-> NoError, ok |-> TRUE, store |-> s, attempted |-> attempted]
    ELSE
        LET removed == removeStorage(s, keys[i], type, keys[i] \in failing)
        IN  IF removed.err = NoError
            THEN everyRemove(removed.store, keys, type, failing, i + 1,
                             Append(attempted, keys[i]))
            ELSE [err |-> NoError, ok |-> FALSE, store |-> removed.store,
                  attempted |-> Append(attempted, keys[i])]

\* failing: the keys for which the native removeItem throws
removeMultipleStorage(s, keys, type, failing) ==
    IF ~isValidStorageType(type)
    THEN [err |-> InvalidStoreKind, ok |-> FALSE, store |-> s, attempted |-> <<>>]
    ELSE everyRemove(s, keys, type, failing, 1, <<>>)

----------------------------------------------------------------------------
(* src/src/cookie.ts and the browser's document.cookie                      *)
(* A cookie name or value is a sequence of characters; a cookie string is a *)
(* sequence of tokens in which "; " and the attribute names are one token.  *)

MissingField == "MissingField"
InvalidMaxAge == "InvalidMaxAge"
MissingKey == "MissingKey"
DecryptionFailed == "DecryptionFailed"
URIError == "URIError"

EncodeChar(c) ==
    CASE c = "=" -> "%3D"
      [] c = ";" -> "%3B"
      [] c = " " -> "%20"
      [] c = "%" -> "%25"
      [] OTHER -> c

\* an encoding that escapes nothing
encodeNothing(str) == str

encodeURIComponent(str) == [i \in 1..Len(str) |-> EncodeChar(str[i])]

DecodeChar(c) ==
    CASE c = "%3D" -> "="
      [] c = "%3B" -> ";"
      [] c = "%20" -> " "
      [] c = "%25" -> "%"
      [] OTHER -> c

\* decodeURIComponent throws a URIError on a "%" that starts no escape
decodeURIComponent(str) ==
    IF \E i \in 1..Len(str) : str[i] = "%"
    THEN [ok |-> FALSE]
    ELSE [ok |-> TRUE, str |-> [i \in 1..Len(str) |-> DecodeChar(str[i])]]

EpochUTC == "Thu, 01 Jan 1970 00:00:00 GMT"
FutureUTC == "Fri, 31 Dec 2100 23:59:59 GMT"

\* new Date(expires).getTime(): NaN for a string that is no date
DateParse(expires) ==
    CASE expires \in {"1970-01-01T00:00:00.000Z", EpochUTC} ->
            [isNaN |-> FALSE, at |-> "epoch"]
      [] expires \in {"2100-12-31T23:59:59.000Z", FutureUTC} ->
            [isNaN |-> FALSE, at |-> "future"]
      [] OTHER -> [isNaN |-> TRUE]

toUTCString(date) == IF date.at = "epoch" THEN EpochUTC ELSE FutureUTC

AttributeTokens == {";expires=", ";max-age=", ";path=", ";domain=", ";secure"}

RECURSIVE FirstIndex(_, _, _)
FirstIndex(seq, S, i) ==
    IF i > Len(seq) THEN 0
    ELSE IF seq[i] \in S THEN i
    ELSE FirstIndex(seq, S, i + 1)

HasAttribute(cookieStr, a) == FirstIndex(cookieStr, {a}, 1) # 0
AttributeValue(cookieStr, a) == cookieStr[FirstIndex(cookieStr, {a}, 1) + 1]

\* The browser's handling of document.cookie = cookieStr, for a document at
\* path "/": a cookie is identified by name, path and domain; an expiry in the
\* past or max-age=0 deletes it, anything else stores or replaces it
documentCookieAssign(jar, cookieStr) ==
    LET a == FirstIndex(cookieStr, AttributeTokens, 1)
        pair == IF a = 0 THEN cookieStr ELSE SubSeq(cookieStr, 1, a - 1)
        eq == FirstIndex(pair, {"="}, 1)
        name == IF eq = 0 THEN <<>> ELSE SubSeq(pair, 1, eq - 1)
        value == IF eq = 0 THEN pair ELSE SubSeq(pair, eq + 1, Len(pair))
        path == IF HasAttribute(cookieStr, ";path=")
                THEN AttributeValue(cookieStr, ";path=") ELSE "/"
        domain == IF HasAttribute(cookieStr, ";domain=")
                  THEN AttributeValue(cookieStr, ";domain=") ELSE ""
        expired ==
            IF HasAttribute(cookieStr, ";max-age=")
            THEN AttributeValue(cookieStr, ";max-age=") = "0"
            ELSE /\ HasAttribute(cookieStr, ";expires=")
                 /\ AttributeValue(cookieStr, ";expires=") = EpochUTC
        same(c) == c.name = name /\ c.path = path /\ c.domain = domain
        cookie == [name |-> name, value |-> value, path |-> path, domain |-> domain]
    IN  IF name = <<>> /\ value = <<>> THEN jar
        ELSE IF expired THEN SelectSeq(jar, LAMBDA c : ~same(c))
        ELSE IF \E i \in 1..Len(jar) : same(jar[i])
        THEN [i \in 1..Len(jar) |-> IF same(jar[i]) THEN cookie ELSE jar[i]]
        ELSE Append(jar, cookie)

\* Reading document.cookie: "name=value" of every cookie, joined with "; "
RECURSIVE documentCookieRead(_)
documentCookieRead(jar) ==
    IF jar = <<>> THEN <<>>
    ELSE LET first == jar[1].name \o <<"=">> \o jar[1].value
         IN  IF Len(jar) = 1 THEN first
             ELSE first \o <<"; ">> \o documentCookieRead(Tail(jar))

\* String.prototype.split: "".split(sep) is [""]
RECURSIVE split(_, _)
split(str, sep) ==
    LET i == FirstIndex(str, {sep}, 1)
    IN  IF i = 0 THEN <<str>>
        ELSE <<SubSeq(str, 1, i - 1)>> \o split(SubSeq(str, i + 1, Len(str)), sep)

\* options = [key, value, expires, maxAge, path, domain, secure, encrypt, secretKey]
\* the outcome is [err, ok, cookieStr, jar]; cookieStr is what was assigned to
\* document.cookie
setCookie(jar, defaults, options) ==
    IF options.key = <<>> \/ options.value = <<>>
    THEN [err |-> MissingField, ok |-> FALSE, cookieStr |-> <<>>, jar |-> jar]
    ELSE IF options.expires # "" /\ DateParse(options.expires).isNaN
    THEN [err |-> InvalidExpiry, ok |-> FALSE, cookieStr |-> <<>>, jar |-> jar]
    ELSE IF hasExpire(options.maxAge) /\ (isNaN(options.maxAge) \/ options.maxAge.n < 0)
    THEN [err |-> InvalidMaxAge, ok |-> FALSE, cookieStr |-> <<>>, jar |-> jar]
    ELSE IF options.encrypt /\ options.secretKey = NoSecret
    THEN [err |-> MissingSecretKey, ok |-> FALSE, cookieStr |-> <<>>, jar |-> jar]
    ELSE
        LET plain == encodeURIComponent(options.key) \o <<"=">>
                        \o encodeURIComponent(options.value)
            withExpires ==
                IF options.expires # ""
                THEN plain \o <<";expires=", toUTCString(DateParse(options.expires))>>
                ELSE plain
            withMaxAge ==
                IF hasExpire(options.maxAge)
                THEN withExpires \o <<";max-age=", ToString(options.maxAge.n)>>
                ELSE withExpires
            encryptedValue == AESencrypt(options.value, options.secretKey)
            afterEncrypt ==
                IF options.encrypt
                THEN encodeURIComponent(options.key) \o <<"=">>
                        \o encodeURIComponent(encryptedValue)
                ELSE withMaxAge
            path == IF options.path # "" THEN options.path ELSE defaults.path
            domain == IF options.domain # "" THEN options.domain ELSE defaults.domain
            withPath == IF path # "" THEN afterEncrypt \o <<";path=", path>>
                        ELSE afterEncrypt
            withDomain == IF domain # "" THEN withPath \o <<";domain=", domain>>
                          ELSE withPath
            cookieStr == IF options.secure \/ defaults.secure
                         THEN withDomain \o <<";secure">> ELSE withDomain
        IN  [err |-> NoError, ok |-> TRUE, cookieStr |-> cookieStr,
             jar |-> documentCookieAssign(jar, cookieStr)]

\* optionsArray.every((options) => setCookie(options)): an exception of
\* setCookie leaves every() and setCookies
RECURSIVE everySetCookie(_, _, _, _)
everySetCookie(jar, defaults, optionsArray, i) ==
    IF i > Len(optionsArray)
    THEN [err |-> NoError, ok |-> TRUE, jar |-> jar]
    ELSE
        LET set == setCookie(jar, defaults, optionsArray[i])
        IN  IF set.err # NoError THEN [err |-> set.err, ok |-> FALSE, jar |-> set.jar]
            ELSE IF ~set.ok THEN [err |-> NoError, ok |-> FALSE, jar |-> set.jar]
            ELSE everySetCookie(set.jar, defaults, optionsArray, i + 1)

setCookies(jar, defaults, optionsArray) == everySetCookie(jar, defaults, optionsArray, 1)

\* the for loop of getCookie over document.cookie.split('; '); the outcome is
\* [err, ret] with ret = <<>> for null and <<value>> for a value
RECURSIVE getCookieLoop(_, _, _, _, _)
getCookieLoop(cookies, i, key, secretKey, dec) ==
    IF i > Len(cookies) THEN [err |-> NoError, ret |-> <<>>]
    ELSE
        LET parts == split(cookies[i], "=")
            cookieKey == decodeURIComponent(parts[1])
            cookieValue ==
                IF Len(parts) >= 2 THEN decodeURIComponent(parts[2])
                ELSE [ok |-> TRUE, str |-> <<"undefined">>]
        IN  IF ~cookieKey.ok THEN [err |-> URIError, ret |-> <<>>]
            ELSE IF cookieKey.str # key
            THEN getCookieLoop(cookies, i + 1, key, secretKey, dec)
            ELSE IF ~cookieValue.ok THEN [err |-> URIError, ret |-> <<>>]
            ELSE IF secretKey = NoSecret THEN [err |-> NoError, ret |-> <<cookieValue.str>>]
            ELSE IF ~dec.ok THEN [err |-> DecryptionFailed, ret |-> <<>>]
            ELSE [err |-> NoError, ret |-> <<dec.str>>]

getCookie(jar, key, secretKey, dec) ==
    IF key = <<>> THEN [err |-> MissingKey, ret |-> <<>>]
    ELSE getCookieLoop(split(documentCookieRead(jar), "; "), 1, key, secretKey, dec)

\* The decrypt outcomes getCookie can meet for this key
CookieDecryptChoices(jar, key, secretKey) ==
    LET plain == getCookie(jar, key, NoSecret, [ok |-> FALSE])
    IN  IF secretKey # NoSecret /\ plain.err = NoError /\ plain.ret # <<>>
        THEN AESdecryptOutcomes(plain.ret[1], secretKey)
        ELSE {[ok |-> FALSE]}

\* setCookie is called with value: '' and its exception is caught
removeCookie(jar, defaults, key) ==
    IF key = <<>> THEN [err |-> MissingKey, ok |-> FALSE, jar |-> jar]
    ELSE
        LET set == setCookie(jar, defaults,
                             [key |-> key, value |-> <<>>, expires |-> EpochUTC,
                              maxAge |-> NoExpire, path |-> "/", domain |-> "",
                              secure |-> FALSE, encrypt |-> FALSE,
                              secretKey |-> NoSecret])
        IN  IF set.err = NoError THEN [err |-> NoError, ok |-> TRUE, jar |-> set.jar]
            ELSE [err |-> NoError, ok |-> FALSE, jar |-> set.jar]

hasCookie(jar, key) ==
    LET got == getCookie(jar, key, NoSecret, [ok |-> FALSE])
    IN  [err |-> got.err, ok |-> got.ret # <<>>]

\* a field of the options of setDefaultCookieOptions: not supplied, or a value
Unset == [unset |-> TRUE]
Given(v) == [v |-> v]
IsGiven(field) == "v" \in DOMAIN field

\* a setDefaultCookieOptions that replaces the defaults wholesale
setDefaultCookieOptionsReplace(defaults, options) ==
    [path |-> IF IsGiven(options.path) THEN options.path.v ELSE "",
     domain |-> IF IsGiven(options.domain) THEN options.domain.v ELSE "",
     secure |-> IF IsGiven(options.secure) THEN options.secure.v ELSE FALSE]

\* Object.assign(defaultCookieOptions, options)
setDefaultCookieOptions(defaults, options) ==
    [path |-> IF IsGiven(options.path) THEN options.path.v ELSE defaults.path,
     domain |-> IF IsGiven(options.domain) THEN options.domain.v ELSE defaults.domain,
     secure |-> IF IsGiven(options.secure) THEN options.secure.v ELSE defaults.secure]

InvalidKeys == "InvalidKeys"

\* keys.every(...) of removeCookies: an exception of removeCookie is caught
\* and counts as false; every() stops at the first false
RECURSIVE everyRemoveCookie(_, _, _, _, _)
everyRemoveCookie(jar, defaults, keys, i, attempted) ==
    IF i > Len(keys)
    THEN [err |-> NoError, ok |-> TRUE, jar |-> jar, attempted |-> attempted]
    ELSE
        LET removed == removeCookie(jar, defaults, keys[i])
        IN  IF removed.err = NoError /\ removed.ok
            THEN everyRemoveCookie(removed.jar, defaults, keys, i + 1,
                                   Append(attempted, keys[i]))
            ELSE [err |-> NoError, ok |-> FALSE, jar |-> removed.jar,
                  attempted |-> Append(attempted, keys[i])]

\* keys.some((key) => !key) is false for the empty array
removeCookies(jar, defaults, keys) ==
    IF \E i \in 1..Len(keys) : keys[i] = <<>>
    THEN [err |-> InvalidKeys, ok |-> FALSE, jar |-> jar, attempted |-> <<>>]
    ELSE everyRemoveCookie(jar, defaults, keys, 1, <<>>)

\* const [cookieKey, cookieValue] = cookie.split('='), both decoded;
\* decodeURIComponent(undefined) is "undefined"
CookieKeyOf(cookie) == decodeURIComponent(split(cookie, "=")[1])
CookieValueOf(cookie) ==
    LET parts == split(cookie, "=")
    IN  IF Len(parts) >= 2 THEN decodeURIComponent(parts[2])
        ELSE [ok |-> TRUE, str |-> <<"undefined">>]

\* The decrypt outcomes a scan of document.cookie can meet, one per entry
BulkDecryptChoices(jar, secretKey) ==
    LET cookies == split(documentCookieRead(jar), "; ")
        outcomes(i) ==
            IF secretKey # NoSecret /\ CookieValueOf(cookies[i]).ok
            THEN AESdecryptOutcomes(CookieValueOf(cookies[i]).str, secretKey)
            ELSE {[ok |-> FALSE]}
    IN  {decs \in [1..Len(cookies) -> UNION {outcomes(i) : i \in 1..Len(cookies)}] :
            \A i \in 1..Len(cookies) : decs[i] \in outcomes(i)}

\* the for loop of getCookies; decs[i] is the decrypt outcome of entry i
RECURSIVE getCookiesLoop(_, _, _, _, _, _)
getCookiesLoop(cookieArray, i, keys, secretKey, decs, cookies) ==
    IF i > Len(cookieArray) THEN [err |-> NoError, ret |-> cookies]
    ELSE
        LET cookieKey == CookieKeyOf(cookieArray[i])
            cookieValue == CookieValueOf(cookieArray[i])
        IN  IF ~cookieKey.ok THEN [err |-> URIError, ret |-> <<>>]
            ELSE IF \A j \in 1..Len(keys) : keys[j] # cookieKey.str
            THEN getCookiesLoop(cookieArray, i + 1, keys, secretKey, decs, cookies)
            ELSE IF ~cookieValue.ok THEN [err |-> URIError, ret |-> <<>>]
            ELSE IF secretKey = NoSecret
            THEN getCookiesLoop(cookieArray, i + 1, keys, secretKey, decs,
                                Append(cookies, cookieValue.str))
            ELSE IF ~decs[i].ok
            THEN getCookiesLoop(cookieArray, i + 1, keys, secretKey, decs, cookies)
            ELSE getCookiesLoop(cookieArray, i + 1, keys, secretKey, decs,
                                Append(cookies, decs[i].str))

\* keys.some((key) => !key) is false for the empty array
getCookies(jar, keys, secretKey, decs) ==
    IF \E i \in 1..Len(keys) : keys[i] = <<>>
    THEN [err |-> InvalidKeys, ret |-> <<>>]
    ELSE getCookiesLoop(split(documentCookieRead(jar), "; "), 1, keys, secretKey,
                        decs, <<>>)

\* "".split('; ') is [""]: an empty jar gives one entry with the empty name
getAllCookieKeys(jar) ==
    LET cookies == split(documentCookieRead(jar), "; ")
    IN  IF \E i \in 1..Len(cookies) : ~CookieKeyOf(cookies[i]).ok
        THEN [err |-> URIError, ret |-> <<>>]
        ELSE [err |-> NoError,
              ret |-> [i \in 1..Len(cookies) |-> CookieKeyOf(cookies[i]).str]]

\* the for loop of getAllCookies; result is a set of <<name, value>> pairs
RECURSIVE getAllCookiesLoop(_, _, _, _, _)
getAllCookiesLoop(cookies, i, secretKey, decs, result) ==
    IF i > Len(cookies) THEN [err |-> NoError, ret |-> result]
    ELSE IF split(cookies[i], "=")[1] = <<>>
    THEN getAllCookiesLoop(cookies, i + 1, secretKey, decs, result)
    ELSE
        LET decodedKey == CookieKeyOf(cookies[i])
            decodedValue == CookieValueOf(cookies[i])
            put(v) == {e \in result : e[1] # decodedKey.str} \cup {<<decodedKey.str, v>>}
        IN  IF ~decodedKey.ok \/ ~decodedValue.ok THEN [err |-> URIError, ret |-> {}]
            ELSE IF secretKey = NoSecret
            THEN getAllCookiesLoop(cookies, i + 1, secretKey, decs, put(decodedValue.str))
            ELSE IF ~decs[i].ok
            THEN getAllCookiesLoop(cookies, i + 1, secretKey, decs, result)
            ELSE getAllCookiesLoop(cookies, i + 1, secretKey, decs, put(decs[i].str))

getAllCookies(jar, secretKey, decs) ==
    getAllCookiesLoop(split(documentCookieRead(jar), "; "), 1, secretKey, decs, {})

----------------------------------------------------------------------------
(* The keyed store as a state machine: one action per exported function     *)

NoWrite == [none |-> TRUE]
IsWrite(w) == "none" \notin DOMAIN w

\* encrypt / secretKey pairs a caller can pass to setStorage
EncryptInputs ==
    {[encrypt |-> FALSE, secretKey |-> NoSecret], [encrypt |-> TRUE, secretKey |-> NoSecret]}
    \cup {[encrypt |-> TRUE, secretKey |-> k] : k \in SecretKeys}

\* key lists for removeMultipleStorage
KeyLists == {<<>>} \cup {<<k>> : k \in Keys} \cup (Keys \X Keys)

RECURSIVE SeqToSet(_)
SeqToSet(q) == IF q = <<>> THEN {} ELSE {Head(q)} \cup SeqToSet(Tail(q))

Init ==
    /\ store = [t \in StorageTypeEnum |-> <<>>]
    /\ now = 0
    /\ written = [t \in StorageTypeEnum |-> [k \in Keys |-> NoWrite]]
    /\ lastOp = [op |-> "init"]
    /\ cookieJar = <<>>
    /\ defaultCookieOptions = [path |-> "", domain |-> "", secure |-> FALSE]

\* Date.now() advances between calls
Tick ==
    /\ now < MaxTime
    /\ now' = now + 1
    /\ lastOp' = [op |-> "tick"]
    /\ UNCHANGED <<store, written, cookieJar, defaultCookieOptions>>

Put(key, value, type, expire, enc) ==
    LET data == [key |-> key, value |-> value, type |-> type, expire |-> expire,
                 encrypt |-> enc.encrypt, secretKey |-> enc.secretKey]
        out == setStorage(store, now, data)
    IN  /\ store' = out.store
        /\ written' = IF out.err = NoError
                       THEN [written EXCEPT ![type][key] =
                                [value |-> value, expire |-> expire, time |-> now,
                                 secretKey |-> IF enc.encrypt THEN enc.secretKey
                                               ELSE NoSecret]]
                       ELSE written
        /\ lastOp' = [op |-> "setStorage", type |-> type, key |-> key,
                      expire |-> expire, encrypt |-> enc.encrypt,
                      secretKey |-> enc.secretKey, err |-> out.err]
        /\ UNCHANGED <<now, cookieJar, defaultCookieOptions>>

Get(key, type, secretKey) ==
    \E dec \in DecryptChoices(store, key, type, secretKey) :
        LET out == getStorage(store, now, key, type, secretKey, dec)
        IN  /\ store' = out.store
            /\ lastOp' = [op |-> "getStorage", type |-> type, key |-> key,
                          secretKey |-> secretKey, err |-> out.err, ret |-> out.ret]
            /\ UNCHANGED <<now, written, cookieJar, defaultCookieOptions>>

GetAll(type) ==
    LET out == getAllStorage(store, now, type)
    IN  /\ store' = out.store
        /\ lastOp' = [op |-> "getAllStorage", type |-> type, err |-> out.err,
                      all |-> out.all]
        /\ UNCHANGED <<now, written, cookieJar, defaultCookieOptions>>

Remove(key, type, nativeThrows) ==
    LET out == removeStorage(store, key, type, nativeThrows)
    IN  /\ store' = out.store
        /\ written' = IF out.err = NoError
                       THEN [written EXCEPT ![type][key] = NoWrite]
                       ELSE written
        /\ lastOp' = [op |-> "removeStorage", type |-> type, key |-> key, err |-> out.err]
        /\ UNCHANGED <<now, cookieJar, defaultCookieOptions>>

Clear(type) ==
    LET out == clearStorage(store, type)
    IN  /\ store' = out.store
        /\ written' = IF out.err = NoError
                       THEN [written EXCEPT ![type] = [k \in Keys |-> NoWrite]]
                       ELSE written
        /\ lastOp' = [op |-> "clearStorage", type |-> type, err |-> out.err]
        /\ UNCHANGED <<now, cookieJar, defaultCookieOptions>>

Has(key, type) ==
    LET out == hasStorage(store, key, type)
    IN  /\ store' = out.store
        /\ lastOp' = [op |-> "hasStorage", type |-> type, key |-> key,
                      err |-> out.err, ok |-> out.ok]
        /\ UNCHANGED <<now, written, cookieJar, defaultCookieOptions>>

Count(type) ==
    LET out == getStorageLength(store, type)
    IN  /\ store' = out.store
        /\ lastOp' = [op |-> "getStorageLength", type |-> type,
                      err |-> out.err, len |-> out.len]
        /\ UNCHANGED <<now, written, cookieJar, defaultCookieOptions>>

KeysOf(type) ==
    LET out == getStorageKeys(store, type)
    IN  /\ store' = out.store
        /\ lastOp' = [op |-> "getStorageKeys", type |-> type,
                      err |-> out.err, keys |-> out.keys]
        /\ UNCHANGED <<now, written, cookieJar, defaultCookieOptions>>

RemoveMany(keys, type, failing) ==
    LET out == removeMultipleStorage(store, keys, type, failing)
    IN  /\ store' = out.store
        /\ written' = [t \in StorageTypeEnum |-> [k \in Keys |->
                            IF /\ t = type
                               /\ k \in SeqToSet(out.attempted) \ failing
                            THEN NoWrite ELSE written[t][k]]]
        /\ lastOp' = [op |-> "removeMultipleStorage", type |-> type, keys |-> keys,
                      failing |-> failing, err |-> out.err, ok |-> out.ok,
                      attempted |-> out.attempted]
        /\ UNCHANGED <<now, cookieJar, defaultCookieOptions>>

ValidExpires == {NoExpire} \cup {NumExpire(n) : n \in 1..MaxTtl}
Plain == [encrypt |-> FALSE, secretKey |-> NoSecret]

\* Valid, unencrypted use of the session store
Next ==
    \/ Tick
    \/ \E key \in Keys, value \in Values, expire \in ValidExpires :
            Put(key, value, Session, expire, Plain)
    \/ \E key \in Keys : Get(key, Session, NoSecret)
    \/ GetAll(Session)
    \/ \E key \in Keys : Remove(key, Session, FALSE)
    \/ Clear(Session)
    \/ \E keys \in KeyLists : RemoveMany(keys, Session, {})

Spec == Init /\ [][Next]_vars

\* The session store when the native removeItem can throw
RemoveNext ==
    \/ \E key \in Keys, value \in Values : Put(key, value, Session, NoExpire, Plain)
    \/ \E key \in Keys, nativeThrows \in BOOLEAN : Remove(key, Session, nativeThrows)
    \/ \E keys \in KeyLists, failing \in SUBSET Keys : RemoveMany(keys, Session, failing)

RemoveSpec == Init /\ [][RemoveNext]_vars

\* Every operation on both stores, with valid and invalid arguments
ValidationNext ==
    \/ \E type \in TypeInputs, expire \in ExpireInputs,
          enc \in {Plain, [encrypt |-> TRUE, secretKey |-> NoSecret]} :
            Put("a", "x", type, expire, enc)
    \/ \E type \in TypeInputs : Get("a", type, NoSecret)
    \/ \E type \in TypeInputs : GetAll(type)
    \/ \E type \in TypeInputs : Remove("a", type, FALSE)
    \/ \E type \in TypeInputs : Clear(type)
    \/ \E type \in TypeInputs : Has("a", type)
    \/ \E type \in TypeInputs : Count(type)
    \/ \E type \in TypeInputs : KeysOf(type)
    \/ \E keys \in {<<>>, <<"a">>, <<"a", "b">>}, type \in TypeInputs :
            RemoveMany(keys, type, {})

ValidationSpec == Init /\ [][ValidationNext]_vars

\* One key of the session store, written and read with and without encryption
EncryptNext ==
    \/ Tick
    \/ \E value \in Values, expire \in ValidExpires, enc \in EncryptInputs \ {[encrypt |-> TRUE, secretKey |-> NoSecret]} :
            Put("a", value, Session, expire, enc)
    \/ \E secretKey \in SecretKeys \cup {NoSecret} : Get("a", Session, secretKey)
    \/ Remove("a", Session, FALSE)

EncryptSpec == Init /\ [][EncryptNext]_vars

\* Other code of the page writes a raw string into the shared native store
ForeignWrite(key, text, type) ==
    /\ store' = [store EXCEPT ![type] = setItem(@, key, text)]
    /\ written' = [written EXCEPT ![type][key] = NoWrite]
    /\ lastOp' = [op |-> "setItem", type |-> type, key |-> key, text |-> text]
    /\ UNCHANGED <<now, cookieJar, defaultCookieOptions>>

\* raw strings of other code: JSON null, a JSON number, text that is no JSON,
\* and JSON null encrypted under k1
ForeignTexts == {<<"null">>, <<"1">>, <<"hello">>, AESencrypt(<<"null">>, "k1")}

\* The session store shared with other code
ForeignNext ==
    \/ Tick
    \/ \E key \in Keys, text \in ForeignTexts : ForeignWrite(key, text, Session)
    \/ \E key \in Keys, expire \in ValidExpires : Put(key, "x", Session, expire, Plain)
    \/ \E key \in Keys, secretKey \in {NoSecret, "k1"} : Get(key, Session, secretKey)
    \/ GetAll(Session)

ForeignSpec == Init /\ [][ForeignNext]_vars

\* One key in both stores, through every operation, while entries expire
TwoStoreNext ==
    \/ Tick
    \/ \E type \in StorageTypeEnum, expire \in ValidExpires,
          enc \in {Plain, [encrypt |-> TRUE, secretKey |-> "k1"]} :
            Put("a", "x", type, expire, enc)
    \/ \E type \in StorageTypeEnum, secretKey \in {NoSecret, "k1"} :
            Get("a", type, secretKey)
    \/ \E type \in StorageTypeEnum : GetAll(type)
    \/ \E type \in StorageTypeEnum : Remove("a", type, FALSE)
    \/ \E type \in StorageTypeEnum : Clear(type)
    \/ \E type \in StorageTypeEnum : Has("a", type)
    \/ \E type \in StorageTypeEnum : Count(type)
    \/ \E type \in StorageTypeEnum : KeysOf(type)
    \/ \E type \in StorageTypeEnum : RemoveMany(<<"a">>, type, {})

TwoStoreSpec == Init /\ [][TwoStoreNext]_vars

\* The session store read through every read operation while entries expire
LazyNext ==
    \/ Tick
    \/ \E key \in Keys, expire \in ValidExpires : Put(key, "x", Session, expire, Plain)
    \/ \E key \in Keys : Get(key, Session, NoSecret)
    \/ GetAll(Session)
    \/ \E key \in Keys : Has(key, Session)
    \/ Count(Session)
    \/ KeysOf(Session)

LazySpec == Init /\ [][LazyNext]_vars

----------------------------------------------------------------------------
(* The cookie facade as a state machine                                     *)

SetOne(options) ==
    LET out == setCookie(cookieJar, defaultCookieOptions, options)
    IN  /\ cookieJar' = out.jar
        /\ lastOp' = [op |-> "setCookie", options |-> options, err |-> out.err,
                      ok |-> out.ok, cookieStr |-> out.cookieStr]
        /\ UNCHANGED <<store, now, written, defaultCookieOptions>>

SetMany(optionsArray) ==
    LET out == setCookies(cookieJar, defaultCookieOptions, optionsArray)
    IN  /\ cookieJar' = out.jar
        /\ lastOp' = [op |-> "setCookies", optionsArray |-> optionsArray,
                      err |-> out.err, ok |-> out.ok]
        /\ UNCHANGED <<store, now, written, defaultCookieOptions>>

GetOne(key, secretKey) ==
    \E dec \in CookieDecryptChoices(cookieJar, key, secretKey) :
        LET out == getCookie(cookieJar, key, secretKey, dec)
        IN  /\ lastOp' = [op |-> "getCookie", key |-> key, secretKey |-> secretKey,
                          err |-> out.err, ret |-> out.ret]
            /\ UNCHANGED <<store, now, written, cookieJar, defaultCookieOptions>>

RemoveOne(key) ==
    LET out == removeCookie(cookieJar, defaultCookieOptions, key)
    IN  /\ cookieJar' = out.jar
        /\ lastOp' = [op |-> "removeCookie", key |-> key, err |-> out.err, ok |-> out.ok]
        /\ UNCHANGED <<store, now, written, defaultCookieOptions>>

HasCookie(key) ==
    LET out == hasCookie(cookieJar, key)
    IN  /\ lastOp' = [op |-> "hasCookie", key |-> key, err |-> out.err, ok |-> out.ok]
        /\ UNCHANGED <<store, now, written, cookieJar, defaultCookieOptions>>

CookieKeys == {<<"a">>, <<"b">>}
CookieValues == {<<"1">>, <<"x", "=", "y">>}

CookieOptions(key, value, expires, maxAge, enc) ==
    [key |-> key, value |-> value, expires |-> expires, maxAge |-> maxAge,
     path |-> "", domain |-> "", secure |-> FALSE,
     encrypt |-> enc.encrypt, secretKey |-> enc.secretKey]

ValidCookieRecords ==
    {CookieOptions(key, value, expires, maxAge, enc) :
        key \in CookieKeys, value \in CookieValues,
        expires \in {"", "1970-01-01T00:00:00.000Z", FutureUTC},
        maxAge \in {NoExpire, NumExpire(0), NumExpire(60)},
        enc \in {Plain, [encrypt |-> TRUE, secretKey |-> "k1"]}}

\* records with one defect each
InvalidCookieRecords ==
    {CookieOptions(<<>>, <<"1">>, "", NoExpire, Plain),
     CookieOptions(<<"a">>, <<>>, "", NoExpire, Plain),
     CookieOptions(<<"a">>, <<"1">>, "tomorrow", NoExpire, Plain),
     CookieOptions(<<"a">>, <<"1">>, "", NumExpire(-1), Plain),
     CookieOptions(<<"a">>, <<"1">>, "", NaNExpire, Plain),
     CookieOptions(<<"a">>, <<"1">>, "", NoExpire, [encrypt |-> TRUE, secretKey |-> NoSecret])}

\* the records of the batches given to setCookies
BatchRecords ==
    {CookieOptions(<<"a">>, <<"1">>, "", NoExpire, Plain),
     CookieOptions(<<"b">>, <<"1">>, "", NumExpire(-1), Plain),
     CookieOptions(<<"b">>, <<"x", "=", "y">>, "", NoExpire, Plain)}
Batches ==
    {<<>>} \cup {<<r>> : r \in BatchRecords} \cup (BatchRecords \X BatchRecords)
    \cup (BatchRecords \X BatchRecords \X BatchRecords)

CookieNext ==
    \/ \E options \in ValidCookieRecords \cup InvalidCookieRecords : SetOne(options)
    \/ \E optionsArray \in Batches : SetMany(optionsArray)
    \/ \E key \in CookieKeys \cup {<<>>}, secretKey \in {NoSecret, "k1", "k2"} :
            GetOne(key, secretKey)
    \/ \E key \in CookieKeys \cup {<<>>} : RemoveOne(key)
    \/ \E key \in CookieKeys \cup {<<>>} : HasCookie(key)

CookieSpec == Init /\ [][CookieNext]_vars

RemoveManyCookies(keys) ==
    LET out == removeCookies(cookieJar, defaultCookieOptions, keys)
    IN  /\ cookieJar' = out.jar
        /\ lastOp' = [op |-> "removeCookies", keys |-> keys, err |-> out.err,
                      ok |-> out.ok, attempted |-> out.attempted]
        /\ UNCHANGED <<store, now, written, defaultCookieOptions>>

GetMany(keys, secretKey) ==
    \E decs \in BulkDecryptChoices(cookieJar, secretKey) :
        LET out == getCookies(cookieJar, keys, secretKey, decs)
        IN  /\ lastOp' = [op |-> "getCookies", keys |-> keys, secretKey |-> secretKey,
                          err |-> out.err, ret |-> out.ret]
            /\ UNCHANGED <<store, now, written, cookieJar, defaultCookieOptions>>

GetAllAsMap(secretKey) ==
    \E decs \in BulkDecryptChoices(cookieJar, secretKey) :
        LET out == getAllCookies(cookieJar, secretKey, decs)
        IN  /\ lastOp' = [op |-> "getAllCookies", secretKey |-> secretKey,
                          err |-> out.err, ret |-> out.ret]
            /\ UNCHANGED <<store, now, written, cookieJar, defaultCookieOptions>>

AllKeys ==
    LET out == getAllCookieKeys(cookieJar)
    IN  /\ lastOp' = [op |-> "getAllCookieKeys", err |-> out.err, ret |-> out.ret]
        /\ UNCHANGED <<store, now, written, cookieJar, defaultCookieOptions>>

\* records without expiry, plain or encrypted under k1
PlainOrEncryptedRecords ==
    {CookieOptions(key, value, "", NoExpire, enc) :
        key \in CookieKeys, value \in CookieValues,
        enc \in {Plain, [encrypt |-> TRUE, secretKey |-> "k1"]}}

CookieKeyLists ==
    {<<>>} \cup {<<k>> : k \in CookieKeys \cup {<<>>}}
    \cup ((CookieKeys \cup {<<>>}) \X (CookieKeys \cup {<<>>}))

\* The bulk operations of the cookie facade
CookieBulkNext ==
    \/ \E options \in PlainOrEncryptedRecords : SetOne(options)
    \/ \E keys \in CookieKeyLists : RemoveManyCookies(keys)
    \/ \E keys \in CookieKeyLists, secretKey \in {NoSecret, "k1", "k2"} :
            GetMany(keys, secretKey)
    \/ \E secretKey \in {NoSecret, "k1", "k2"} : GetAllAsMap(secretKey)
    \/ \E key \in CookieKeys, secretKey \in {NoSecret, "k1", "k2"} :
            GetOne(key, secretKey)
    \/ AllKeys

CookieBulkSpec == Init /\ [][CookieBulkNext]_vars

SetDefaults(options) ==
    /\ defaultCookieOptions' = setDefaultCookieOptions(defaultCookieOptions, options)
    /\ lastOp' = [op |-> "setDefaultCookieOptions", options |-> options]
    /\ UNCHANGED <<store, now, written, cookieJar>>

DefaultInputs ==
    {[path |-> p, domain |-> d, secure |-> s] :
        p \in {Unset, Given("/app"), Given("/b")},
        d \in {Unset, Given("example.com")},
        s \in {Unset, Given(TRUE)}}

\* records with and without a path and a domain of their own
PathDomainRecords ==
    {[CookieOptions(<<"a">>, <<"1">>, "", NoExpire, Plain)
        EXCEPT !.path = p, !.domain = d] : p \in {"", "/b"}, d \in {"", "example.com"}}

\* The default options and the cookies written under them; the jar holds at
\* most MaxCookies cookies
DefaultsNext ==
    \/ \E options \in DefaultInputs : SetDefaults(options)
    \/ \E options \in PathDomainRecords :
            /\ Len(setCookie(cookieJar, defaultCookieOptions, options).jar) <= MaxCookies
            /\ SetOne(options)

DefaultsSpec == Init /\ [][DefaultsNext]_vars

----------------------------------------------------------------------------
(* Claims on the valid, unencrypted use of the session store (Spec)         *)

LastWrite == written[lastOp.type][lastOp.key]
IsGet == lastOp.op = "getStorage"
GetOfTtlWrite ==
    /\ IsGet
    /\ IsWrite(LastWrite)
    /\ hasExpire(LastWrite.expire)
    /\ lastOp.secretKey = LastWrite.secretKey
EntryGone == hasStorage(store, lastOp.key, lastOp.type).ok = FALSE

\* C1 as stated: after Put(key, value, kind, ttl = T) at t0, a Get at t1 < t0+T
\* returns the value, and a Get at t1 >= t0+T (t1 = t0+T included) returns
\* absent and removes the entry.
C1_AsStated ==
    GetOfTtlWrite =>
        IF now < LastWrite.time + LastWrite.expire.n
        THEN lastOp.ret = LastWrite.value
        ELSE lastOp.ret = Null /\ EntryGone

\* C1 amended: after Put(key, value, kind, ttl = T) at t0 with no later
\* Put/Remove/Clear of the key, a Get at t1 <= t0+T returns the written value,
\* and a Get at t1 > t0+T returns absent and leaves no entry (Has is false).
C1_TtlExpiry ==
    GetOfTtlWrite =>
        IF now <= LastWrite.time + LastWrite.expire.n
        THEN lastOp.ret = LastWrite.value
        ELSE lastOp.ret = Null /\ EntryGone

\* a Get after the ttl has elapsed that returned absent and purged the entry
C1_Witness ==
    /\ GetOfTtlWrite
    /\ now > LastWrite.time + LastWrite.expire.n
    /\ lastOp.ret = Null
    /\ EntryGone

\* C2: a Put without ttl and without encryption, then any Get(key, kind) before
\* a Remove, RemoveMany, Clear or overwriting Put of the key, returns exactly
\* the written value, at any clock time.
C2_RoundTrip ==
    (/\ IsGet
     /\ lastOp.secretKey = NoSecret
     /\ IsWrite(LastWrite)
     /\ ~hasExpire(LastWrite.expire)
     /\ LastWrite.secretKey = NoSecret)
        => lastOp.err = NoError /\ lastOp.ret = LastWrite.value

\* a Get at a later clock time, with another key in the store, that returned
\* the value written without ttl
C2_Witness ==
    /\ IsGet
    /\ IsWrite(LastWrite)
    /\ ~hasExpire(LastWrite.expire)
    /\ now > LastWrite.time
    /\ Len(store[lastOp.type]) > 1
    /\ lastOp.ret = LastWrite.value

\* What applying Get to every key present at call time would collect
GetOfEveryKey(s, nowTime, type) ==
    {<<s[type][i].key, getStorage(s, nowTime, s[type][i].key, type, NoSecret,
                                  [ok |-> FALSE]).ret>> : i \in 1..Len(s[type])}
ExpiredKeys(s, nowTime, type) ==
    {s[type][i].key : i \in
        {j \in 1..Len(s[type]) :
            getStorage(s, nowTime, s[type][j].key, type, NoSecret,
                       [ok |-> FALSE]).store # s}}

\* C3: GetAll(kind) returns exactly the keys whose Get is non-absent, each with
\* that value, and on return every entry expired at call time has been removed,
\* wherever the expired entries are in the enumeration order.
C3_GetAllAppliesGetToEveryKey ==
    [][(lastOp'.op = "getAllStorage" /\ lastOp'.err = NoError) =>
        /\ lastOp'.all = {e \in GetOfEveryKey(store, now, lastOp'.type) : e[2] # Null}
        /\ \A k \in ExpiredKeys(store, now, lastOp'.type) :
                hasStorage(store', k, lastOp'.type).ok = FALSE]_vars

----------------------------------------------------------------------------
(* Claims on bulk removal (RemoveSpec), validation (ValidationSpec) and     *)
(* encryption (EncryptSpec)                                                 *)

UpToFirstFailure(keys, failing) ==
    LET F == {i \in 1..Len(keys) : keys[i] \in failing}
    IN  IF F = {} THEN keys
        ELSE SubSeq(keys, 1, CHOOSE i \in F : \A j \in F : i <= j)

StorageOps ==
    {"setStorage", "getStorage", "getAllStorage", "removeStorage", "clearStorage",
     "hasStorage", "getStorageLength", "getStorageKeys", "removeMultipleStorage"}

InvalidExpireArg(expire) == hasExpire(expire) /\ (isNaN(expire) \/ expire.n <= 0)

\* C8 as stated: every keyed-store operation called with an unrecognized
\* store tag fails with InvalidStoreKind whatever its other arguments are (a
\* Put with an invalid ttl included) and changes neither store.
C8_AsStated ==
    [][(lastOp'.op \in StorageOps /\ ~isValidStorageType(lastOp'.type)) =>
        lastOp'.err = InvalidStoreKind /\ store' = store]_vars

\* C8 amended: every keyed-store operation called with an unrecognized store
\* tag raises and changes neither store; the error is InvalidStoreKind, except
\* for a Put whose ttl is also invalid, which fails with InvalidExpiry.
C8_InvalidKindFails ==
    [][(lastOp'.op \in StorageOps /\ ~isValidStorageType(lastOp'.type)) =>
        /\ store' = store
        /\ lastOp'.err =
              IF lastOp'.op = "setStorage" /\ InvalidExpireArg(lastOp'.expire)
              THEN InvalidExpiry ELSE InvalidStoreKind]_vars

\* an operation with an unrecognized tag failed with InvalidStoreKind while
\* both stores held entries
C8_Witness ==
    /\ lastOp.op \in StorageOps \ {"setStorage"}
    /\ ~isValidStorageType(lastOp.type)
    /\ lastOp.err = InvalidStoreKind
    /\ store[Session] # <<>>
    /\ store[Local] # <<>>

\* C9: a Put whose present ttl is not a number greater than 0 fails with
\* InvalidExpiry; a Put to a valid store with encrypt = true and an empty or
\* missing secretKey fails with MissingSecretKey; a Put that raises leaves the
\* stores, a previous entry under the same key included, unchanged.
C9_PutValidation ==
    [][lastOp'.op = "setStorage" =>
        /\ InvalidExpireArg(lastOp'.expire) => lastOp'.err = InvalidExpiry
        /\ (/\ ~InvalidExpireArg(lastOp'.expire)
            /\ isValidStorageType(lastOp'.type)
            /\ lastOp'.encrypt
            /\ lastOp'.secretKey = NoSecret) => lastOp'.err = MissingSecretKey
        /\ lastOp'.err # NoError => store' = store]_vars

\* a Put over an existing entry, with encrypt = true and no secretKey, failed
\* with MissingSecretKey, the entry still being there
C9_Witness ==
    /\ lastOp.op = "setStorage"
    /\ isValidStorageType(lastOp.type)
    /\ lastOp.encrypt
    /\ lastOp.err = MissingSecretKey
    /\ hasStorage(store, lastOp.key, lastOp.type).ok

\* C10: after Put(key, value, kind, encrypt = true, secretKey = k), a Get with
\* secretKey = k returns the written value until the ttl has elapsed and absent
\* after that; a Get with a secretKey different from k never returns the
\* written value.
C10_EncryptedRoundTrip ==
    (/\ IsGet
     /\ IsWrite(LastWrite)
     /\ LastWrite.secretKey # NoSecret) =>
        IF lastOp.secretKey = LastWrite.secretKey
        THEN lastOp.ret =
                IF /\ hasExpire(LastWrite.expire)
                   /\ now > LastWrite.time + LastWrite.expire.n
                THEN Null ELSE LastWrite.value
        ELSE lastOp.ret # LastWrite.value

\* a Get with the right secretKey returned the value of an encrypted entry
\* written with a ttl, at a later clock time
C10_Witness ==
    /\ IsGet
    /\ IsWrite(LastWrite)
    /\ LastWrite.secretKey # NoSecret
    /\ lastOp.secretKey = LastWrite.secretKey
    /\ hasExpire(LastWrite.expire)
    /\ now > LastWrite.time
    /\ lastOp.ret = LastWrite.value

----------------------------------------------------------------------------
(* Claims on the cookie facade (CookieSpec)                                 *)

HoldsCookieAtRoot(jar, key) ==
    \E i \in 1..Len(jar) :
        jar[i].name = encodeURIComponent(key) /\ jar[i].path = "/"

\* C4 as stated: RemoveOne(key) with a non-empty key, on a jar holding a cookie
\* named key at path /, returns true, and afterwards Has(key) is false and
\* GetOne(key) is absent.
C4_AsStated ==
    [][(/\ lastOp'.op = "removeCookie"
        /\ lastOp'.key # <<>>
        /\ HoldsCookieAtRoot(cookieJar, lastOp'.key)) =>
            /\ lastOp'.err = NoError
            /\ lastOp'.ok = TRUE
            /\ hasCookie(cookieJar', lastOp'.key).ok = FALSE
            /\ getCookie(cookieJar', lastOp'.key, NoSecret, [ok |-> FALSE]).ret = <<>>]_vars

RecordFails(options) ==
    setCookie(<<>>, defaultCookieOptions, options).err # NoError
FirstFailing(optionsArray) ==
    CHOOSE i \in 1..Len(optionsArray) :
        /\ RecordFails(optionsArray[i])
        /\ \A j \in 1..(i - 1) : ~RecordFails(optionsArray[j])

\* C5 as stated: SetMany commits the records in order and, when a record fails,
\* returns false to the caller; the records before the failing one stay
\* committed and no later record is committed.
C5_AsStated ==
    [][(/\ lastOp'.op = "setCookies"
        /\ \E i \in 1..Len(lastOp'.optionsArray) : RecordFails(lastOp'.optionsArray[i])) =>
            /\ lastOp'.err = NoError
            /\ lastOp'.ok = FALSE
            /\ cookieJar' =
                 setCookies(cookieJar, defaultCookieOptions,
                            SubSeq(lastOp'.optionsArray, 1,
                                   FirstFailing(lastOp'.optionsArray) - 1)).jar]_vars

\* the cookie string the same record gives without encrypt
UnencryptedCookieStr(options) ==
    setCookie(<<>>, defaultCookieOptions,
              [options EXCEPT !.encrypt = FALSE, !.secretKey = NoSecret]).cookieStr

SameAttribute(cookieStr, other, a) ==
    /\ HasAttribute(cookieStr, a) = HasAttribute(other, a)
    /\ HasAttribute(cookieStr, a) => AttributeValue(cookieStr, a) = AttributeValue(other, a)

\* C6 as stated: SetOne with encrypt and a secretKey commits a cookie whose
\* value is the percent-encoded ciphertext and which carries every expires and
\* max-age attribute of the record, as the same record without encrypt would.
C6_AsStated ==
    (/\ lastOp.op = "setCookie"
     /\ lastOp.err = NoError
     /\ lastOp.options.encrypt
     /\ lastOp.options.secretKey # NoSecret) =>
        /\ SubSeq(lastOp.cookieStr, 1,
                  Len(lastOp.options.key) + 1 + Len(lastOp.options.value) + 3)
             = encodeURIComponent(lastOp.options.key) \o <<"=">>
                 \o encodeURIComponent(AESencrypt(lastOp.options.value,
                                                  lastOp.options.secretKey))
        /\ SameAttribute(lastOp.cookieStr, UnencryptedCookieStr(lastOp.options),
                         ";expires=")
        /\ SameAttribute(lastOp.cookieStr, UnencryptedCookieStr(lastOp.options),
                         ";max-age=")

----------------------------------------------------------------------------
(* Claims on failed reads, lazy expiry and the raw entries                  *)

\* C11: a Get of an entry that does not decrypt or parse under the secretKey
\* given (an entry encrypted under another key, an encrypted entry read
\* without key, a plain entry read with a key) returns absent, raises nothing
\* and leaves the store as it was, so Has(key) stays true.
C11_FailedReadIsAbsent ==
    [][(/\ lastOp'.op = "getStorage"
        /\ hasStorage(store, lastOp'.key, lastOp'.type).ok
        /\ IsWrite(written[lastOp'.type][lastOp'.key])
        /\ lastOp'.secretKey # written[lastOp'.type][lastOp'.key].secretKey) =>
            /\ lastOp'.err = NoError
            /\ lastOp'.ret = Null
            /\ store' = store
            /\ hasStorage(store', lastOp'.key, lastOp'.type).ok]_vars

\* a Get with the wrong secretKey on an encrypted entry whose ttl has elapsed
\* returned absent and the entry is still there
C11_Witness ==
    /\ IsGet
    /\ IsWrite(LastWrite)
    /\ LastWrite.secretKey \in SecretKeys
    /\ lastOp.secretKey \in SecretKeys \ {LastWrite.secretKey}
    /\ hasExpire(LastWrite.expire)
    /\ now > LastWrite.time + LastWrite.expire.n
    /\ lastOp.ret = Null
    /\ hasStorage(store, lastOp.key, lastOp.type).ok

\* the native store holds an entry under the key, expired or not
RawPresent(s, type, key) == \E i \in 1..Len(s[type]) : s[type][i].key = key
RawKeys(s, type) == {k \in Keys : RawPresent(s, type, k)}

\* the entry was written with a ttl that has elapsed and is still in the store
ExpiredUnread(type, key) ==
    /\ RawPresent(store, type, key)
    /\ IsWrite(written[type][key])
    /\ hasExpire(written[type][key].expire)
    /\ now > written[type][key].time + written[type][key].expire.n

\* C12: an entry leaves the store only through Get, GetAll, Remove, Clear or
\* RemoveMany, never through the clock advancing; Has, Count and Keys change
\* no entry and answer for the raw entries, expired ones included: Has(key) is
\* true for an expired unread entry, Count counts it and Keys lists it.
C12_LazyExpiry ==
    [][/\ RawKeys(store, Session) \ RawKeys(store', Session) # {} =>
            lastOp'.op \in {"getStorage", "getAllStorage", "removeStorage",
                            "clearStorage", "removeMultipleStorage"}
       /\ lastOp'.op \in {"hasStorage", "getStorageLength", "getStorageKeys"} =>
            /\ store' = store
            /\ lastOp'.err = NoError
            /\ lastOp'.op = "hasStorage" =>
                    lastOp'.ok = RawPresent(store, lastOp'.type, lastOp'.key)
            /\ lastOp'.op = "getStorageLength" =>
                    lastOp'.len = Cardinality(RawKeys(store, lastOp'.type))
            /\ lastOp'.op = "getStorageKeys" =>
                    SeqToSet(lastOp'.keys) = RawKeys(store, lastOp'.type)]_vars

\* Has answered true for an entry whose ttl had elapsed, in a store that also
\* holds a live entry
C12_Witness ==
    /\ lastOp.op = "hasStorage"
    /\ ExpiredUnread(lastOp.type, lastOp.key)
    /\ lastOp.ok = TRUE
    /\ Len(store[lastOp.type]) = 2

NoDuplicates(q) == \A i, j \in 1..Len(q) : q[i] = q[j] => i = j

\* C13: Has(key) is false immediately after Remove(key), and Remove raises no
\* error whether or not the key had an entry; Count is 0 immediately after
\* Clear; after every operation Keys returns exactly the keys that have a raw
\* entry, each once, and its length equals Count.
C13_RemoveClearKeys ==
    [][/\ lastOp'.op = "removeStorage" =>
            /\ lastOp'.err = NoError
            /\ hasStorage(store', lastOp'.key, lastOp'.type).ok = FALSE
       /\ lastOp'.op = "clearStorage" =>
            /\ lastOp'.err = NoError
            /\ getStorageLength(store', lastOp'.type).len = 0
       /\ LET keys == getStorageKeys(store', Session).keys
          IN  /\ SeqToSet(keys) = RawKeys(store', Session)
              /\ NoDuplicates(keys)
              /\ Len(keys) = getStorageLength(store', Session).len]_vars

\* a Remove after which Has of the removed key is false and Keys lists the
\* other key, written before, only
C13_Witness ==
    /\ lastOp.op = "removeStorage"
    /\ lastOp.err = NoError
    /\ hasStorage(store, lastOp.key, lastOp.type).ok = FALSE
    /\ \E k \in Keys \ {lastOp.key} :
            /\ getStorageKeys(store, lastOp.type).keys = <<k>>
            /\ IsWrite(written[lastOp.type][k])

----------------------------------------------------------------------------
(* Claims on the bulk operations of the cookie facade (CookieBulkSpec)      *)

\* C14 as stated: RemoveMany(keys) on a list of non-empty keys calls
\* RemoveOne for every key, also after one has failed, returns true iff every
\* RemoveOne succeeded, and the keys after a failing one are removed.
C14_AsStated ==
    [][(lastOp'.op = "removeCookies" /\ lastOp'.err = NoError) =>
        /\ lastOp'.attempted = lastOp'.keys
        /\ lastOp'.ok =
              (\A i \in 1..Len(lastOp'.keys) :
                    removeCookie(cookieJar, defaultCookieOptions, lastOp'.keys[i]).ok)
        /\ \A i \in 2..Len(lastOp'.keys) :
                hasCookie(cookieJar', lastOp'.keys[i]).ok = FALSE]_vars

\* C15 as stated: GetMany raises InvalidKeys when the key list is empty and
\* when the key list contains an empty key.
C15_AsStated ==
    (/\ lastOp.op = "getCookies"
     /\ \/ lastOp.keys = <<>>
        \/ \E i \in 1..Len(lastOp.keys) : lastOp.keys[i] = <<>>) =>
        lastOp.err = InvalidKeys

\* the decrypt outcomes of the entries if every entry that is not a
\* ciphertext under secretKey made the decryption fail
FailingDecrypts(jar, secretKey) ==
    LET cookies == split(documentCookieRead(jar), "; ")
    IN  [i \in 1..Len(cookies) |->
            IF /\ CookieValueOf(cookies[i]).ok
               /\ IsCipherOf(CookieValueOf(cookies[i]).str, secretKey)
            THEN CHOOSE d \in AESdecryptOutcomes(CookieValueOf(cookies[i]).str,
                                                 secretKey) : TRUE
            ELSE [ok |-> FALSE]]

\* the jar holds a cookie under the key whose value is no ciphertext under secretKey
MatchesUndecryptable(jar, key, secretKey) ==
    LET got == getCookie(jar, key, NoSecret, [ok |-> FALSE])
    IN  got.err = NoError /\ got.ret # <<>> /\ ~IsCipherOf(got.ret[1], secretKey)

\* C16 as stated: GetOne(key, secretKey) raises DecryptionFailed when the
\* matched entry does not decrypt under secretKey; GetMany and GetAllAsMap
\* never raise for such an entry, leave it out of the result and return every
\* other matching entry.
C16_AsStated ==
    /\ (/\ lastOp.op = "getCookie"
        /\ lastOp.secretKey # NoSecret
        /\ MatchesUndecryptable(cookieJar, lastOp.key, lastOp.secretKey)) =>
            lastOp.err = DecryptionFailed
    /\ (/\ lastOp.op = "getCookies"
        /\ lastOp.secretKey # NoSecret
        /\ lastOp.err # InvalidKeys) =>
            /\ lastOp.err = NoError
            /\ lastOp.ret = getCookies(cookieJar, lastOp.keys, lastOp.secretKey,
                                       FailingDecrypts(cookieJar, lastOp.secretKey)).ret
    /\ (lastOp.op = "getAllCookies" /\ lastOp.secretKey # NoSecret) =>
            /\ lastOp.err = NoError
            /\ lastOp.ret = getAllCookies(cookieJar, lastOp.secretKey,
                                          FailingDecrypts(cookieJar, lastOp.secretKey)).ret

----------------------------------------------------------------------------
(* Claims on the default cookie options (DefaultsSpec)                      *)

\* the attribute of the header is the value, or is missing for the empty value
CarriesAttribute(cookieStr, a, value) ==
    IF value = "" THEN ~HasAttribute(cookieStr, a)
    ELSE HasAttribute(cookieStr, a) /\ AttributeValue(cookieStr, a) = value

\* C17: a SetDefaults call sets each of path, domain and secure it supplies
\* and leaves the others as they were, so each field holds the value of the
\* most recent call that supplied it; a SetOne leaves the defaults as they
\* are and writes the record's own path and domain when given and the
\* default ones otherwise.
C17_DefaultsMerge ==
    [][/\ lastOp'.op = "setDefaultCookieOptions" =>
            \A f \in {"path", "domain", "secure"} :
                defaultCookieOptions'[f] =
                    IF IsGiven(lastOp'.options[f]) THEN lastOp'.options[f].v
                    ELSE defaultCookieOptions[f]
       /\ (lastOp'.op = "setCookie" /\ lastOp'.err = NoError) =>
            /\ defaultCookieOptions' = defaultCookieOptions
            /\ CarriesAttribute(lastOp'.cookieStr, ";path=",
                    IF lastOp'.options.path # "" THEN lastOp'.options.path
                    ELSE defaultCookieOptions.path)
            /\ CarriesAttribute(lastOp'.cookieStr, ";domain=",
                    IF lastOp'.options.domain # "" THEN lastOp'.options.domain
                    ELSE defaultCookieOptions.domain)]_vars

\* a SetOne without a domain, under defaults whose domain and path were set,
\* committed a cookie with the default domain
C17_Witness ==
    /\ lastOp.op = "setCookie"
    /\ lastOp.options.domain = ""
    /\ defaultCookieOptions.domain = "example.com"
    /\ defaultCookieOptions.path = "/b"
    /\ AttributeValue(lastOp.cookieStr, ";domain=") = "example.com"
    /\ \E i \in 1..Len(cookieJar) : cookieJar[i].domain = "example.com"

----------------------------------------------------------------------------
(* Claims on single cookies (CookieSpec)                                    *)

\* the raw value document.cookie holds under the key: <<>> or <<value>>
RawCookie(jar, key) == getCookie(jar, key, NoSecret, [ok |-> FALSE]).ret

\* the keys a step can have written
WrittenKeys(op) ==
    IF op.op = "setCookie" THEN {op.options.key}
    ELSE IF op.op = "setCookies"
    THEN {op.optionsArray[i].key : i \in 1..Len(op.optionsArray)}
    ELSE {}

\* C18: right after a successful SetOne({key, value}) without expires and
\* maxAge, Has(key) is true and GetOne(key) returns exactly value, or, for a
\* record written with encrypt and secretKey k, GetOne(key, k) returns the
\* plaintext value; and the cookie stays as it is through every step that
\* does not write the key.
C18_CookieRoundTrip ==
    [][/\ (/\ lastOp'.op = "setCookie"
           /\ lastOp'.err = NoError
           /\ lastOp'.options.expires = ""
           /\ ~hasExpire(lastOp'.options.maxAge)) =>
            /\ hasCookie(cookieJar', lastOp'.options.key).ok
            /\ IF lastOp'.options.encrypt
               THEN \A dec \in CookieDecryptChoices(cookieJar', lastOp'.options.key,
                                                    lastOp'.options.secretKey) :
                        getCookie(cookieJar', lastOp'.options.key,
                                  lastOp'.options.secretKey, dec)
                            = [err |-> NoError, ret |-> <<lastOp'.options.value>>]
               ELSE RawCookie(cookieJar', lastOp'.options.key)
                        = <<lastOp'.options.value>>
       /\ \A key \in CookieKeys \ WrittenKeys(lastOp') :
                RawCookie(cookieJar', key) = RawCookie(cookieJar, key)]_vars

\* a GetOne with the secretKey returned the plaintext, which holds a "=", of
\* a cookie written encrypted, while the jar holds a second cookie
C18_Witness ==
    /\ lastOp.op = "getCookie"
    /\ lastOp.secretKey = "k1"
    /\ lastOp.err = NoError
    /\ lastOp.ret = <<(<<"x", "=", "y">>)>>
    /\ RawCookie(cookieJar, lastOp.key) = <<AESencrypt(<<"x", "=", "y">>, "k1")>>
    /\ Len(cookieJar) = 2

----------------------------------------------------------------------------
(* Claims on the stored envelope (Spec)                                     *)

\* the envelope stored under the key, parsed
Envelope(s, type, key) == JSONparse(getItem(s[type], key).str)

\* C19: the entry a Put leaves is exactly the envelope of its own arguments,
\* whatever entry the key had before: value, and time and expire if and only
\* if the caller gave an expire, with time the clock value at the write; an
\* envelope without expire is expired at no clock value; and a step that is
\* not a Put of the key leaves the entry as it is or removes it.
C19_Envelope ==
    [][/\ (lastOp'.op = "setStorage" /\ lastOp'.err = NoError) =>
            LET w == written'[lastOp'.type][lastOp'.key]
                env == Envelope(store', lastOp'.type, lastOp'.key)
            IN  /\ env.ok
                /\ env.data =
                     IF hasExpire(lastOp'.expire)
                     THEN [value |-> w.value, time |-> now, expire |-> lastOp'.expire.n]
                     ELSE [value |-> w.value]
                /\ ~hasExpire(lastOp'.expire) =>
                        \A t \in 0..(MaxTime + MaxTtl + 1) : ~isExpired(env.data, t)
       /\ \A key \in Keys :
            (/\ RawPresent(store', Session, key)
             /\ ~(lastOp'.op = "setStorage" /\ lastOp'.key = key)) =>
                getItem(store'[Session], key) = getItem(store[Session], key)]_vars

\* a Put without expire at a later clock value that overwrote an entry (the
\* key kept its place before a key written earlier with an expire): the
\* envelope holds the value only
C19_Witness ==
    /\ lastOp.op = "setStorage"
    /\ lastOp.err = NoError
    /\ ~hasExpire(lastOp.expire)
    /\ now > 0
    /\ Len(store[lastOp.type]) = 2
    /\ store[lastOp.type][1].key = lastOp.key
    /\ DOMAIN Envelope(store, lastOp.type, lastOp.key).data = {"value"}
    /\ "expire" \in DOMAIN Envelope(store, lastOp.type, store[lastOp.type][2].key).data

----------------------------------------------------------------------------
(* Claims on the enumeration of the jar (CookieBulkSpec)                    *)

\* C20 as stated: AllKeys returns the decoded name of every cookie of the jar,
\* in jar order, one per cookie: as many names as the jar has cookies, and the
\* empty sequence for the empty jar.
C20_AsStated ==
    lastOp.op = "getAllCookieKeys" =>
        /\ lastOp.err = NoError
        /\ lastOp.ret = [i \in 1..Len(cookieJar) |->
                            decodeURIComponent(cookieJar[i].name).str]

----------------------------------------------------------------------------
(* Claims on raw entries of other code (ForeignSpec) and on the two stores  *)
(* (TwoStoreSpec)                                                           *)

\* C21 as stated: for a valid store kind, Get(key, kind, secretKey?) returns a
\* value or absent and never raises, whatever raw text is stored under the
\* key, text of other code that parses to JSON null included.
C21_AsStated ==
    (lastOp.op = "getStorage" /\ isValidStorageType(lastOp.type)) =>
        lastOp.err = NoError

\* the other store kind
OtherStore(type) == IF type = Session THEN Local ELSE Session

\* the Get reads, under the secretKey given, an entry whose ttl has elapsed
FindsExpired(type, key, secretKey) ==
    /\ ExpiredUnread(type, key)
    /\ secretKey = written[type][key].secretKey

\* C22: no keyed-store operation on one store kind changes the content of the
\* other store, and a Get that does not find an expired entry (no entry, an
\* entry whose ttl has not elapsed or that has none, an entry that does not
\* decrypt or parse under the secretKey given) leaves the selected store
\* unchanged too.
C22_StoresIndependent ==
    [][(lastOp'.op \in StorageOps /\ isValidStorageType(lastOp'.type)) =>
        /\ store'[OtherStore(lastOp'.type)] = store[OtherStore(lastOp'.type)]
        /\ (/\ lastOp'.op = "getStorage"
            /\ ~FindsExpired(lastOp'.type, lastOp'.key, lastOp'.secretKey)) =>
                store' = store]_vars

\* a Get with a secretKey on an unencrypted entry whose ttl has elapsed
\* returned absent and left the entry in place, while the other store holds
\* an entry too
C22_Witness ==
    /\ lastOp.op = "getStorage"
    /\ lastOp.secretKey = "k1"
    /\ ExpiredUnread(lastOp.type, lastOp.key)
    /\ written[lastOp.type][lastOp.key].secretKey = NoSecret
    /\ lastOp.ret = Null
    /\ store[OtherStore(lastOp.type)] # <<>>

====
